---- MODULE Spec2Model ----
(***************************************************************************)
(* Model of harvesters/upr_crawler/generic_spider.py: the Scrapy spider     *)
(* UprSpider, its four callbacks (parse, parse_pdf, parse_docx, parse_txt), *)
(* the helpers join_text and clean_text, and the part of the Scrapy engine  *)
(* that drives the callbacks (scheduler with its duplicate filter, the      *)
(* offsite filter fed by allowed_domains, the feed that receives items).    *)
(*                                                                         *)
(* Texts are sequences of Unicode code points (integers); the characters of *)
(* a URL are one-character strings.  Library calls made by the spider are   *)
(* modelled by what the library does with the arguments the spider passes.  *)
(***************************************************************************)
EXTENDS Integers, Sequences, FiniteSets, Bags, TLC

(***************************************************************************)
(* Bounds of the model.                                                    *)
(***************************************************************************)
MaxLinks == 4   \* links on the page handed to parse (runs of one cycle)
MaxText  == 2   \* code points in an exhaustively enumerated text fragment
MaxFrags == 2   \* text fragments (title / body text nodes) of a page
MaxParts == 2   \* pages of a PDF, paragraphs of a DOCX
MaxBytes == 3   \* bytes of a plain-text body

(***************************************************************************)
(* Characters named by clean_text (line 34).                               *)
(***************************************************************************)
NL    == 10   \* '\n'
CR    == 13   \* '\r'
TAB   == 9    \* '\t'
SLASH == 47   \* "/"
SPACE == 32   \* " ", the separator of join_text (line 29)

Range(s) == {s[i] : i \in DOMAIN s}

RECURSIVE SeqsOfLen(_, _)
SeqsOfLen(S, n) ==
    IF n = 0 THEN {<<>>} ELSE {Append(s, x) : s \in SeqsOfLen(S, n - 1), x \in S}

SeqsUpTo(S, n) == UNION {SeqsOfLen(S, k) : k \in 0..n}

RECURSIVE Flatten(_)
Flatten(ss) == IF ss = <<>> THEN <<>> ELSE Head(ss) \o Flatten(Tail(ss))

(***************************************************************************)
(* join_text (lines 28-30): " ".join(text_list).                            *)
(***************************************************************************)
RECURSIVE join_text(_)
join_text(text_list) ==
    IF text_list = <<>> THEN <<>>
    ELSE IF Len(text_list) = 1 THEN Head(text_list)
    ELSE Head(text_list) \o <<SPACE>> \o join_text(Tail(text_list))

(***************************************************************************)
(* clean_text (lines 33-34):                                               *)
(*   text.replace('\n','').replace('\r','').replace('\t','')               *)
(*       .replace("/",'').strip()                                          *)
(* str.strip() with no argument removes leading and trailing characters    *)
(* for which str.isspace() holds.                                          *)
(***************************************************************************)
Replace(text, c) == SelectSeq(text, LAMBDA x : x # c)

IsSpace(c) ==
    \/ c \in 9..13
    \/ c \in 28..32
    \/ c \in {133, 160, 5760, 8232, 8233, 8239, 8287, 12288}
    \/ c \in 8192..8202

RECURSIVE LStrip(_)
LStrip(text) ==
    IF text # <<>> /\ IsSpace(Head(text)) THEN LStrip(Tail(text)) ELSE text

RECURSIVE RStrip(_)
RStrip(text) ==
    IF text # <<>> /\ IsSpace(text[Len(text)])
    THEN RStrip(SubSeq(text, 1, Len(text) - 1))
    ELSE text

Strip(text) == RStrip(LStrip(text))

\* clean_text without the final strip()
clean_text_no_strip(text) == Replace(Replace(Replace(Replace(text, NL), CR), TAB), SLASH)

\* clean_text with lstrip() in place of strip()
clean_text_lstrip(text) ==
    LStrip(Replace(Replace(Replace(Replace(text, NL), CR), TAB), SLASH))

\* clean_text with replace('\t', ' ') in place of replace('\t', '')
clean_text_tab_as_space(text) ==
    Strip(Replace(Replace(Replace([i \in DOMAIN text |-> IF text[i] = TAB THEN SPACE ELSE text[i]],
                                  NL), CR), SLASH))

clean_text(text) == Strip(Replace(Replace(Replace(Replace(text, NL), CR), TAB), SLASH))

(***************************************************************************)
(* MapCompose(clean_text) (lines 104, 107): the function applied to every  *)
(* value of the list the XPath returned.                                   *)
(***************************************************************************)
MapCompose_clean_text(values) == [i \in DOMAIN values |-> clean_text(values[i])]

(***************************************************************************)
(* URLs.  A URL is scheme://host/dirs.../file?query with                   *)
(*   host  : the sequence of its dot-separated labels,                     *)
(*   dirs  : the directory segments of the path (each followed by "/"),    *)
(*   file  : the characters of the last path segment (<<>>: path ends "/"),*)
(*   query : the characters after "?" (<<>>: no query).                    *)
(***************************************************************************)
Url(scheme, host, dirs, file, query) ==
    [scheme |-> scheme, host |-> host, dirs |-> dirs, file |-> file, query |-> query]

WWW  == <<"www", "upr", "edu", "cu">>
BLOG == <<"blogcrai", "upr", "edu", "cu">>
CRAI == <<"crai", "upr", "edu", "cu">>
XHOST == <<"x">>

\* start_urls (lines 61-65)
Seed1 == Url("http", WWW, <<>>, <<>>, <<>>)
Seed2 == Url("https", BLOG, <<>>, <<>>, <<>>)
Seed3 == Url("https", CRAI, <<>>, <<>>, <<>>)
start_urls == <<Seed1, Seed2, Seed3>>

\* allowed_domains (line 60)
allowed_domains == {<<"upr", "edu", "cu">>}

\* https://x/doc.pdf, https://x/f.docx, https://x/n.txt, https://x/page2, https://x/img.jpg
XDocPdf == Url("https", XHOST, <<>>, <<"d", "o", "c", ".", "p", "d", "f">>, <<>>)
XFDocx  == Url("https", XHOST, <<>>, <<"f", ".", "d", "o", "c", "x">>, <<>>)
XNTxt   == Url("https", XHOST, <<>>, <<"n", ".", "t", "x", "t">>, <<>>)
XPage2  == Url("https", XHOST, <<>>, <<"p", "a", "g", "e", "2">>, <<>>)
XImgJpg == Url("https", XHOST, <<>>, <<"i", "m", "g", ".", "j", "p", "g">>, <<>>)
\* https://crai.upr.edu.cu/article/download/5 and .../article/download/n.txt
Download5   == Url("https", CRAI, <<"article", "download">>, <<"5">>, <<>>)
DownloadTxt == Url("https", CRAI, <<"article", "download">>, <<"n", ".", "t", "x", "t">>, <<>>)
\* https://crai.upr.edu.cu/article/download/5?f=a.txt
DownloadQTxt == Url("https", CRAI, <<"article", "download">>, <<"5">>,
                    <<"f", "=", "a", ".", "t", "x", "t">>)
\* https://crai.upr.edu.cu/n.txt, /page2, /get?f=f.docx, /IMG.PNG, /a.pdf
CNTxt   == Url("https", CRAI, <<>>, <<"n", ".", "t", "x", "t">>, <<>>)
CPage2  == Url("https", CRAI, <<>>, <<"p", "a", "g", "e", "2">>, <<>>)
CGetDocx == Url("https", CRAI, <<>>, <<"g", "e", "t">>, <<"f", "=", "f", ".", "d", "o", "c", "x">>)
CImgPng == Url("https", CRAI, <<>>, <<"I", "M", "G", ".", "P", "N", "G">>, <<>>)
CAPdf   == Url("https", CRAI, <<>>, <<"a", ".", "p", "d", "f">>, <<>>)

InDomainUrls == {Seed1, Seed2, Seed3, Download5, DownloadTxt, DownloadQTxt, CNTxt, CPage2,
                 CGetDocx, CImgPng, CAPdf}
Urls == InDomainUrls \cup {XDocPdf, XFDocx, XNTxt, XPage2, XImgJpg}

(***************************************************************************)
(* scrapy.linkextractors.LinkExtractor as the spider uses it (lines 86-88, *)
(* 110-112).  extract_links keeps a link when                              *)
(*   - `allow` is empty or re.search finds one of its patterns in the URL, *)
(*   - the path of the URL does not end in "." + e for any e of            *)
(*     deny_extensions, compared in lower case; when the constructor gets  *)
(*     no deny_extensions it uses scrapy.linkextractors.IGNORED_EXTENSIONS.*)
(* The links come back in document order, without repetitions.             *)
(***************************************************************************)
IGNORED_EXTENSIONS ==
    {"7z", "7zip", "bz2", "rar", "tar", "tar.gz", "xz", "zip",
     "mng", "pct", "bmp", "gif", "jpg", "jpeg", "png", "pst", "psp", "tif", "tiff",
     "ai", "drw", "dxf", "eps", "ps", "svg", "cdr", "ico",
     "mp3", "wma", "ogg", "wav", "ra", "aac", "mid", "au", "aiff",
     "3gp", "asf", "asx", "avi", "mov", "mp4", "mpg", "qt", "rm", "swf", "wmv",
     "m4a", "m4v", "flv", "webm",
     "xls", "xlsx", "ppt", "pptx", "pps", "doc", "docx", "odt", "ods", "odg", "odp",
     "css", "pdf", "exe", "bin", "rss", "dmg", "iso", "apk"}

\* the list of line 111 with 'jpg' left out
PageDenyNoJpg ==
    {"rar", "jpeg", "gif", "png", "ppt", "pptx", "pdf", "doc", "docx", "txt",
     "xls", "db", "zip", "dpt", "exe", "mso", "wmz", "sav", "tmp"}

\* deny_extensions of the page pass (line 111)
PageDenyExtensions ==
    {"rar", "jpg", "jpeg", "gif", "png", "ppt", "pptx", "pdf", "doc", "docx", "txt",
     "xls", "db", "zip", "dpt", "exe", "mso", "wmz", "sav", "tmp"}

Lower(c) ==
    CASE c = "P" -> "p" [] c = "D" -> "d" [] c = "F" -> "f" [] c = "N" -> "n"
      [] c = "G" -> "g" [] c = "I" -> "i" [] c = "M" -> "m" [] c = "J" -> "j"
      [] c = "T" -> "t" [] c = "X" -> "x" [] c = "O" -> "o" [] c = "C" -> "c"
      [] OTHER -> c

RECURSIVE Cat(_)
Cat(chars) == IF chars = <<>> THEN "" ELSE Head(chars) \o Cat(Tail(chars))

\* the lower-cased characters after the last "." of the file name ("" if none)
RECURSIVE AfterLastDot(_, _)
AfterLastDot(chars, acc) ==
    IF chars = <<>> THEN acc
    ELSE IF Head(chars) = "." THEN AfterLastDot(Tail(chars), <<Lower(Head(chars))>>)
    ELSE AfterLastDot(Tail(chars),
                      IF acc = <<>> THEN acc ELSE Append(acc, Lower(Head(chars))))

ExtensionOf(url) ==
    LET dotted == AfterLastDot(url.file, <<>>)
    IN  IF dotted = <<>> THEN "" ELSE Cat(Tail(dotted))

url_has_any_extension(url, extensions) ==
    /\ AfterLastDot(url.file, <<>>) # <<>>
    /\ ExtensionOf(url) \in extensions

\* the end of the URL string, from the last "/" of the path on
UrlTail(url) ==
    <<"/">> \o url.file \o (IF url.query = <<>> THEN <<>> ELSE <<"?">> \o url.query)

\* re.search(".<word>$", url): any one character, then word, then the end
MatchesDotWordEnd(url, word) ==
    LET t == UrlTail(url)
    IN  /\ Len(t) >= Len(word) + 1
        /\ SubSeq(t, Len(t) - Len(word) + 1, Len(t)) = word

\* re.search("article/download/", url)
MatchesArticleDownload(url) ==
    \E i \in 1..(Len(url.dirs) - 1) :
        url.dirs[i] = "article" /\ url.dirs[i + 1] = "download"

AllowPdf(url) ==          \* allow=[r".pdf$", r'article/download/'] (line 86)
    MatchesDotWordEnd(url, <<"p", "d", "f">>) \/ MatchesArticleDownload(url)
AllowDoc(url) ==          \* allow=('.doc$|.docx$') (line 87)
    MatchesDotWordEnd(url, <<"d", "o", "c">>) \/ MatchesDotWordEnd(url, <<"d", "o", "c", "x">>)
AllowTxt(url) ==          \* allow=r".txt$" (line 88)
    MatchesDotWordEnd(url, <<"t", "x", "t">>)

InPdf(url)  == AllowPdf(url) /\ ~url_has_any_extension(url, IGNORED_EXTENSIONS)
InDoc(url)  == AllowDoc(url) /\ ~url_has_any_extension(url, IGNORED_EXTENSIONS)
InTxt(url)  == AllowTxt(url) /\ ~url_has_any_extension(url, IGNORED_EXTENSIONS)
InPage(url) == ~url_has_any_extension(url, PageDenyExtensions)

pdf_links(response) == SelectSeq(response.links, InPdf)
doc_links(response) == SelectSeq(response.links, InDoc)
txt_links(response) == SelectSeq(response.links, InTxt)
all_links(response) == SelectSeq(response.links, InPage)

(***************************************************************************)
(* What the callbacks yield: Request(url, callback=...), and the items     *)
(* WebSite (lines 37-40) and Document (lines 43-45) as load_item returns   *)
(* them.  A field an ItemLoader filled with one value is written as that   *)
(* value; the WebSite title and content are the lists of cleaned fragments *)
(* (a field the XPath found no value for is absent from the item: it is    *)
(* written as the empty list).                                             *)
(***************************************************************************)
Request(url, callback) == [kind |-> "Request", url |-> url, callback |-> callback]
WebSite(url, title, content) ==
    [kind |-> "WebSite", url |-> url, title |-> title, content |-> content]
Document(url, content) == [kind |-> "Document", url |-> url, content |-> content]

Requests(links, callback) == [i \in DOMAIN links |-> Request(links[i], callback)]

\* opened: the temporary files the call created; held: those still open when
\* the call is over
Returned(out) == [raised |-> FALSE, out |-> out, opened |-> 0, held |-> 0]
Raised        == [raised |-> TRUE, out |-> <<>>, opened |-> 0, held |-> 0]

(***************************************************************************)
(* A response is what the engine hands to a callback: its url and the      *)
(* views of its body the libraries compute:                                *)
(*   ctype "html": links (the <a href> targets LinkExtractor sees, made    *)
(*                 absolute, in document order, no repetitions),           *)
(*                 titleTexts ('/html/head/title/text()'), bodyTexts (the  *)
(*                 '//body//text()[...]' nodes);                           *)
(*   ctype "pdf" / "docx": parts, the texts of the pages / paragraphs, and *)
(*                 whether and where reading the document raises (fails,   *)
(*                 at = number of parts read before the exception);        *)
(*   ctype "txt":  body, the bytes.                                        *)
(* ctype "image" has no view.                                              *)
(***************************************************************************)
HtmlResponse(url, links, titleTexts, bodyTexts) ==
    [url |-> url, ctype |-> "html", links |-> links,
     titleTexts |-> titleTexts, bodyTexts |-> bodyTexts]
DocResponse(url, ctype, parts, fails, at) ==
    [url |-> url, ctype |-> ctype, parts |-> parts, fails |-> fails, at |-> at]
TxtResponse(url, body) == [url |-> url, ctype |-> "txt", body |-> body]
ImageResponse(url) == [url |-> url, ctype |-> "image"]

(***************************************************************************)
(* UprSpider.parse (lines 78-115).  LinkExtractor.extract_links and the    *)
(* XPath selectors need a text response; on any other response the first   *)
(* extract_links call raises before anything is yielded.                   *)
(***************************************************************************)
\* the item loaded without MapCompose(clean_text)
parse_item_unclean(response) ==
    WebSite(response.url, response.titleTexts, response.bodyTexts)

\* the ItemLoader of lines 99-108
parse_item(response) ==
    WebSite(response.url,
            MapCompose_clean_text(response.titleTexts),
            MapCompose_clean_text(response.bodyTexts))

\* the third loop running over doc_links instead of txt_links
parse_txt_loop_over_doc_links(response) ==
    IF response.ctype # "html" THEN Raised
    ELSE Returned(Requests(pdf_links(response), "parse_pdf")
                  \o Requests(doc_links(response), "parse_docx")
                  \o Requests(doc_links(response), "parse_txt")
                  \o <<parse_item(response)>>
                  \o Requests(all_links(response), "parse"))

\* the item yielded first, before the three document loops
parse_item_first(response) ==
    IF response.ctype # "html" THEN Raised
    ELSE Returned(<<parse_item(response)>>
                  \o Requests(pdf_links(response), "parse_pdf")
                  \o Requests(doc_links(response), "parse_docx")
                  \o Requests(txt_links(response), "parse_txt")
                  \o Requests(all_links(response), "parse"))

\* the item yielded inside the last loop, once per page link
RECURSIVE ItemAndRequestPerLink(_, _)
ItemAndRequestPerLink(links, item) ==
    IF links = <<>> THEN <<>>
    ELSE <<item, Request(Head(links), "parse")>> \o ItemAndRequestPerLink(Tail(links), item)

parse_item_in_page_loop(response) ==
    IF response.ctype # "html" THEN Raised
    ELSE Returned(Requests(pdf_links(response), "parse_pdf")
                  \o Requests(doc_links(response), "parse_docx")
                  \o Requests(txt_links(response), "parse_txt")
                  \o ItemAndRequestPerLink(all_links(response), parse_item(response)))

parse(response) ==
    IF response.ctype # "html" THEN Raised
    ELSE Returned(Requests(pdf_links(response), "parse_pdf")
                  \o Requests(doc_links(response), "parse_docx")
                  \o Requests(txt_links(response), "parse_txt")
                  \o <<parse_item(response)>>
                  \o Requests(all_links(response), "parse"))

(***************************************************************************)
(* The try block of parse_pdf (lines 129-138) and parse_docx (156-164):    *)
(* content starts empty and grows by one part per iteration; an exception  *)
(* (opening the document, or reading part number at+1) leaves the loop     *)
(* with the content accumulated so far and is swallowed by the except.     *)
(* The loop runs inside `with tempfile.NamedTemporaryFile(delete=True) as  *)
(* temp_file` (lines 130, 157): the file is created on entry and closed    *)
(* (and deleted) when the block is left, normally or by the exception.     *)
(***************************************************************************)
RECURSIVE ExtractLoop(_, _, _, _, _)
ExtractLoop(parts, fails, at, k, content) ==
    IF fails /\ k = at THEN [caught |-> TRUE, content |-> content]
    ELSE IF k = Len(parts) THEN [caught |-> FALSE, content |-> content]
    ELSE ExtractLoop(parts, fails, at, k + 1, content \o parts[k + 1])

\* a payload that is not of the expected format makes the reader raise at once
DocView(response, ctype) ==
    IF response.ctype = ctype
    THEN [parts |-> response.parts, fails |-> response.fails, at |-> response.at]
    ELSE [parts |-> <<>>, fails |-> TRUE, at |-> 0]

\* the except branch resetting content instead of keeping what was read
TryExtractDropsPartial(response, ctype) ==
    LET v == DocView(response, ctype)
        r == ExtractLoop(v.parts, v.fails, v.at, 0, <<>>)
    IN  [caught |-> r.caught, content |-> IF r.caught THEN <<>> ELSE r.content,
         opened |-> 1, held |-> 0]

\* the file created without `with` and closed by the last statement of the
\* try block, which an exception skips
TryExtractLeaksOnError(response, ctype) ==
    LET v == DocView(response, ctype)
        r == ExtractLoop(v.parts, v.fails, v.at, 0, <<>>)
    IN  [caught |-> r.caught, content |-> r.content,
         opened |-> 1, held |-> IF r.caught THEN 1 ELSE 0]

TryExtract(response, ctype) ==
    LET v == DocView(response, ctype)
        r == ExtractLoop(v.parts, v.fails, v.at, 0, <<>>)
        closedAtEnd == IF r.caught THEN 0 ELSE 1      \* the block ran to its end
        closedByRaise == IF r.caught THEN 1 ELSE 0    \* __exit__ on the exception
    IN  [caught |-> r.caught, content |-> r.content,
         opened |-> 1, held |-> 1 - closedAtEnd - closedByRaise]

\* UprSpider.parse_pdf (lines 117-141)
parse_pdf(response) ==
    LET x == TryExtract(response, "pdf")
    IN  [Returned(<<Document(response.url, x.content)>>)
            EXCEPT !.opened = x.opened, !.held = x.held]

\* UprSpider.parse_docx (lines 143-167)
parse_docx(response) ==
    LET x == TryExtract(response, "docx")
    IN  [Returned(<<Document(response.url, x.content)>>)
            EXCEPT !.opened = x.opened, !.held = x.held]

(***************************************************************************)
(* bytes.decode('utf-8') (line 182), strict: the code points of the body,  *)
(* or UnicodeDecodeError on a byte sequence that is not well-formed UTF-8. *)
(***************************************************************************)
IsCont(b) == b \in 128..191

RECURSIVE Utf8Decode(_, _)
Utf8Decode(bytes, acc) ==
    IF bytes = <<>> THEN [ok |-> TRUE, text |-> acc]
    ELSE LET b == bytes[1]
             n == Len(bytes)
             c(i) == bytes[i] - 128
         IN  IF b < 128 THEN Utf8Decode(Tail(bytes), Append(acc, b))
             ELSE IF b \in 194..223 /\ n >= 2 /\ IsCont(bytes[2])
             THEN Utf8Decode(SubSeq(bytes, 3, n), Append(acc, (b - 192) * 64 + c(2)))
             ELSE IF b \in 224..239 /\ n >= 3 /\ IsCont(bytes[2]) /\ IsCont(bytes[3])
             THEN LET cp == (b - 224) * 4096 + c(2) * 64 + c(3)
                  IN  IF cp >= 2048 /\ cp \notin 55296..57343
                      THEN Utf8Decode(SubSeq(bytes, 4, n), Append(acc, cp))
                      ELSE [ok |-> FALSE, text |-> <<>>]
             ELSE IF b \in 240..244 /\ n >= 4
                     /\ IsCont(bytes[2]) /\ IsCont(bytes[3]) /\ IsCont(bytes[4])
             THEN LET cp == (b - 240) * 262144 + c(2) * 4096 + c(3) * 64 + c(4)
                  IN  IF cp \in 65536..1114111
                      THEN Utf8Decode(SubSeq(bytes, 5, n), Append(acc, cp))
                      ELSE [ok |-> FALSE, text |-> <<>>]
             ELSE [ok |-> FALSE, text |-> <<>>]

decode_utf8(bytes) == Utf8Decode(bytes, <<>>)

\* the decoding wrapped in try/except like the other two callbacks
parse_txt_swallow(response) ==
    LET d == decode_utf8(response.body)
    IN  Returned(<<Document(response.url, IF d.ok THEN d.text ELSE <<>>)>>)

\* UprSpider.parse_txt (lines 169-185): the decoding error is not caught
parse_txt(response) ==
    LET d == decode_utf8(response.body)
    IN  IF d.ok THEN Returned(<<Document(response.url, d.text)>>) ELSE Raised

(***************************************************************************)
(* The engine that runs the spider (class UprSpider(Spider), line 48;      *)
(* CrawlerProcess, lines 188-191).                                         *)
(*   frontier : the scheduler's pending requests, a bag of tasks           *)
(*   seen     : the duplicate filter's fingerprints (the URL of a request) *)
(*   sink     : the feed data.json (custom_settings, lines 67-76), a bag   *)
(*              of exported items                                          *)
(*   log      : the engine's log, one entry per task taken from the        *)
(*              frontier: its url and callback and how the cycle ended     *)
(*              ("fetch_failed", "raised", "ok")                           *)
(*   site     : what the web serves for each URL                           *)
(*   last     : the latest engine cycle: its task, whether the fetch       *)
(*              failed, whether the callback raised, what it yielded, how  *)
(*              many temporary files it created                            *)
(*   tempfiles: the number of temporary files the process holds open       *)
(***************************************************************************)
VARIABLES site, frontier, seen, sink, log, last, tempfiles

vars == <<site, frontier, seen, sink, log, last, tempfiles>>

Task(url, callback) == [url |-> url, callback |-> callback]
Entry(t, outcome) == [url |-> t.url, callback |-> t.callback, outcome |-> outcome]

NoCycle == [callback |-> "none", url |-> Seed1, fetchFailed |-> FALSE,
            raised |-> FALSE, out |-> <<>>, opened |-> 0]

IsSuffix(d, h) == Len(h) >= Len(d) /\ SubSeq(h, Len(h) - Len(d) + 1, Len(h)) = d

\* no offsite filter at all
should_follow_any(url) == TRUE

\* the offsite filter: the host is an allowed domain or a subdomain of one

should_follow(url) == \E d \in allowed_domains : IsSuffix(d, url.host)

\* the feed exporter applies a field's serializer: content of WebSite (line 40)
Export(item) ==
    IF item.kind = "WebSite"
    THEN [item EXCEPT !.content = join_text(item.content)]
    ELSE item

\* the scheduler without its duplicate filter (every request dont_filter=True)
RECURSIVE DeliverUnfiltered(_, _)
DeliverUnfiltered(out, st) ==
    IF out = <<>> THEN st
    ELSE LET o == Head(out)
             next ==
                 IF o.kind = "Request"
                 THEN IF should_follow(o.url)
                      THEN [st EXCEPT !.frontier = @ (+) SetToBag({Task(o.url, o.callback)}),
                                      !.seen = @ \cup {o.url}]
                      ELSE st
                 ELSE [st EXCEPT !.sink = @ (+) SetToBag({Export(o)})]
         IN  DeliverUnfiltered(Tail(out), next)

(***************************************************************************)
(* What the engine does with the outputs of a callback, in order: an item  *)
(* goes to the feed; a request passes the offsite filter, then the         *)
(* scheduler, which drops it when the duplicate filter has seen its URL    *)
(* (Request(...) is built with the default dont_filter=False, lines 91-115)*)
(***************************************************************************)
RECURSIVE Deliver(_, _)
Deliver(out, st) ==
    IF out = <<>> THEN st
    ELSE LET o == Head(out)
             next ==
                 IF o.kind = "Request"
                 THEN IF should_follow(o.url) /\ o.url \notin st.seen
                      THEN [st EXCEPT !.frontier = @ (+) SetToBag({Task(o.url, o.callback)}),
                                      !.seen = @ \cup {o.url}]
                      ELSE st
                 ELSE [st EXCEPT !.sink = @ (+) SetToBag({Export(o)})]
         IN  Deliver(Tail(out), next)

\* one engine cycle for task t whose fetch succeeded and whose callback gave r;
\* an exception raised by the callback is logged and the crawl goes on
CycleAbortOnRaise(t, r) ==
    LET st == Deliver(r.out, [frontier |-> frontier (-) SetToBag({t}),
                              seen |-> seen, sink |-> sink])
    IN  /\ frontier' = IF r.raised THEN EmptyBag ELSE st.frontier
        /\ seen' = st.seen
        /\ sink' = st.sink
        /\ log' = log \cup {Entry(t, IF r.raised THEN "raised" ELSE "ok")}
        /\ last' = [callback |-> t.callback, url |-> t.url, fetchFailed |-> FALSE,
                    raised |-> r.raised, out |-> r.out, opened |-> r.opened]
        /\ tempfiles' = tempfiles + r.held
        /\ UNCHANGED site

\* the feed file written anew by every cycle instead of appended to
CycleOverwritesFeed(t, r) ==
    LET st == Deliver(r.out, [frontier |-> frontier (-) SetToBag({t}),
                              seen |-> seen, sink |-> EmptyBag])
    IN  /\ frontier' = st.frontier
        /\ seen' = st.seen
        /\ sink' = st.sink
        /\ log' = log \cup {Entry(t, IF r.raised THEN "raised" ELSE "ok")}
        /\ last' = [callback |-> t.callback, url |-> t.url, fetchFailed |-> FALSE,
                    raised |-> r.raised, out |-> r.out, opened |-> r.opened]
        /\ tempfiles' = tempfiles + r.held
        /\ UNCHANGED site

Cycle(t, r) ==
    LET st == Deliver(r.out, [frontier |-> frontier (-) SetToBag({t}),
                              seen |-> seen, sink |-> sink])
    IN  /\ frontier' = st.frontier
        /\ seen' = st.seen
        /\ sink' = st.sink
        /\ log' = log \cup {Entry(t, IF r.raised THEN "raised" ELSE "ok")}
        /\ last' = [callback |-> t.callback, url |-> t.url, fetchFailed |-> FALSE,
                    raised |-> r.raised, out |-> r.out, opened |-> r.opened]
        /\ tempfiles' = tempfiles + r.held
        /\ UNCHANGED site

(***************************************************************************)
(* The fetch fails (after the downloader's retries, or a non-2xx status):  *)
(* no errback is set (lines 91-115), the callback is not called.           *)
(***************************************************************************)
\* a failed fetch closing the crawl
FetchFailAbort(t) ==
    /\ BagIn(t, frontier)
    /\ frontier' = EmptyBag
    /\ log' = log \cup {Entry(t, "fetch_failed")}
    /\ last' = [callback |-> t.callback, url |-> t.url, fetchFailed |-> TRUE,
                raised |-> FALSE, out |-> <<>>, opened |-> 0]
    /\ UNCHANGED <<site, seen, sink, tempfiles>>

\* a failed request scheduled again, without limit
FetchFailRetry(t) ==
    /\ BagIn(t, frontier)
    /\ log' = log \cup {Entry(t, "fetch_failed")}
    /\ last' = [callback |-> t.callback, url |-> t.url, fetchFailed |-> TRUE,
                raised |-> FALSE, out |-> <<>>, opened |-> 0]
    /\ UNCHANGED <<site, frontier, seen, sink, tempfiles>>

FetchFail(t) ==
    /\ BagIn(t, frontier)
    /\ frontier' = frontier (-) SetToBag({t})
    /\ log' = log \cup {Entry(t, "fetch_failed")}
    /\ last' = [callback |-> t.callback, url |-> t.url, fetchFailed |-> TRUE,
                raised |-> FALSE, out |-> <<>>, opened |-> 0]
    /\ UNCHANGED <<site, seen, sink, tempfiles>>

RunParse(t) ==
    /\ BagIn(t, frontier) /\ t.callback = "parse"
    /\ Cycle(t, parse(site[t.url]))

RunParsePdf(t) ==
    /\ BagIn(t, frontier) /\ t.callback = "parse_pdf"
    /\ Cycle(t, parse_pdf(site[t.url]))

RunParseDocx(t) ==
    /\ BagIn(t, frontier) /\ t.callback = "parse_docx"
    /\ Cycle(t, parse_docx(site[t.url]))

RunParseTxt(t) ==
    /\ BagIn(t, frontier) /\ t.callback = "parse_txt"
    /\ Cycle(t, parse_txt(site[t.url]))

Next ==
    \/ \E t \in BagToSet(frontier) : FetchFail(t)
    \/ \E t \in BagToSet(frontier) : RunParse(t)
    \/ \E t \in BagToSet(frontier) : RunParsePdf(t)
    \/ \E t \in BagToSet(frontier) : RunParseDocx(t)
    \/ \E t \in BagToSet(frontier) : RunParseTxt(t)

(***************************************************************************)
(* The web of the crawl runs: a few small sites over Urls.                 *)
(***************************************************************************)
TitleT   == <<84, CR>>                  \* "T\r"
BodyAB   == <<<<97, TAB, 98, NL>>, <<SPACE, 97, SLASH, 98>>>>
PageOne  == <<97, NL>>                  \* "a\n"
PageTwo  == <<98>>                      \* "b"
TxtValid == <<97, NL, 195, 169>>        \* "a\n" and U+00E9 in UTF-8
TxtBad   == <<97, 255>>

SiteOf(l1, l2, l3, lp, pdf, docx, txt) ==
    [u \in Urls |->
        CASE u = Seed1 -> HtmlResponse(u, l1, <<TitleT>>, BodyAB)
          [] u = Seed2 -> HtmlResponse(u, l2, <<>>, <<>>)
          [] u = Seed3 -> HtmlResponse(u, l3, <<TitleT>>, <<PageOne>>)
          [] u \in {CPage2, XPage2} -> HtmlResponse(u, lp, <<TitleT>>, BodyAB)
          [] u \in {Download5, XDocPdf, CAPdf} ->
                 DocResponse(u, "pdf", <<PageOne, PageTwo>>, pdf.fails, pdf.at)
          [] u \in {CGetDocx, XFDocx} ->
                 DocResponse(u, "docx", <<PageOne, PageTwo>>, docx.fails, docx.at)
          [] u \in {CNTxt, XNTxt, DownloadTxt, DownloadQTxt} -> TxtResponse(u, txt)
          [] OTHER -> ImageResponse(u)]

Failures == {[fails |-> FALSE, at |-> 0], [fails |-> TRUE, at |-> 1]}

Sites ==
    {SiteOf(l1, l2, l3, lp, pdf, docx, txt) :
        l1 \in {<<>>, <<Seed3, XPage2>>},
        l2 \in {<<Seed1>>},
        l3 \in {<<Download5, CGetDocx, CNTxt, CPage2>>,
                <<XDocPdf, XFDocx, XNTxt, XPage2, XImgJpg, CAPdf, CImgPng>>,
                <<DownloadTxt, CNTxt, Seed3>>},
        lp \in {<<>>, <<Seed3, CNTxt>>},
        pdf \in Failures, docx \in Failures, txt \in {TxtValid, TxtBad}}

\* start_requests: one request per start URL, callback parse, dont_filter=True
\* (not recorded by the duplicate filter)
StartTasks == {Task(start_urls[i], "parse") : i \in DOMAIN start_urls}

Init ==
    /\ site \in Sites
    /\ frontier = SetToBag(StartTasks)
    /\ seen = {}
    /\ sink = EmptyBag
    /\ log = {}
    /\ last = NoCycle
    /\ tempfiles = 0

Spec == Init /\ [][Next]_vars

(***************************************************************************)
(* The engine keeps taking requests from the scheduler while there are any *)
(* (process.start() returns when the spider is idle, line 191): some cycle *)
(* is run as long as the frontier is not empty.                            *)
(***************************************************************************)
FairSites ==
    {SiteOf(l1, <<Seed1>>, l3, lp, [fails |-> FALSE, at |-> 0], [fails |-> TRUE, at |-> 1], txt) :
        l1 \in {<<>>, <<Seed3, XPage2>>},
        l3 \in {<<Download5, CGetDocx, CNTxt, CPage2>>, <<DownloadTxt, CNTxt, Seed3>>},
        lp \in {<<>>, <<Seed3, CNTxt>>},
        txt \in {TxtValid, TxtBad}}

InitFair == Init /\ site \in FairSites

SpecFair == InitFair /\ [][Next]_vars /\ WF_vars(Next)

(***************************************************************************)
(* One engine cycle on an arbitrary response: the frontier holds a single  *)
(* task, the web serves its URL one response drawn from the bounded input  *)
(* sets below, and the run ends after that cycle.                          *)
(***************************************************************************)
Chars == {97, SPACE, NL, CR, TAB, SLASH, 11}
Texts == SeqsUpTo(Chars, MaxText)
SampleTexts == {<<>>, <<97>>, <<97, NL, 98>>, <<SPACE, TAB>>, <<97, SLASH, 98, CR>>}
ByteValues == {97, 10, 195, 169, 255}

LinkUniverse == {XDocPdf, XFDocx, XNTxt, XPage2, XImgJpg, Download5, DownloadTxt,
                 DownloadQTxt, CGetDocx, CImgPng, Seed3}

\* the link lists of n different links
NoRepeat(l) == \A i, j \in DOMAIN l : i # j => l[i] # l[j]
LinkSeqs(n) == {l \in [1..n -> LinkUniverse] : NoRepeat(l)}

\* "Test\r" and "Hello\tWorld\n"
TestCR          == <<84, 101, 115, 116, CR>>
HelloTabWorldNL == <<72, 101, 108, 108, 111, TAB, 87, 111, 114, 108, 100, NL>>

TitleInputs == {<<>>, <<TitleT>>, <<<<SPACE, 84>>, <<CR>>>>, <<TestCR>>}
BodyInputs  == SeqsUpTo(SampleTexts, MaxFrags) \cup {<<x>> : x \in Texts}
                   \cup {<<HelloTabWorldNL>>}

DocInputs(u, ctype) ==
    {DocResponse(u, ctype, parts, fails, at) :
        parts \in SeqsUpTo(SampleTexts, MaxParts), fails \in BOOLEAN, at \in 0..MaxParts}

PdfInputs  == {r \in DocInputs(Download5, "pdf") : r.at <= Len(r.parts)}
DocxInputs == {r \in DocInputs(CGetDocx, "docx") : r.at <= Len(r.parts)}
TxtInputs  == {TxtResponse(CNTxt, b) : b \in SeqsUpTo(ByteValues, MaxBytes)}

\* the frontier holds one task, for a URL that serves `response`
InitOneWith(callback, response) ==
    /\ site = (response.url :> response)
    /\ frontier = SetToBag({Task(response.url, callback)})
    /\ seen = {response.url}
    /\ sink = EmptyBag
    /\ log = {}
    /\ last = NoCycle
    /\ tempfiles = 0

InitOne ==
    \/ \E n \in 0..MaxLinks : \E l \in LinkSeqs(n) :
           InitOneWith("parse", HtmlResponse(CPage2, l, <<TitleT>>, BodyAB))
    \/ \E ti \in TitleInputs, b \in BodyInputs :
           InitOneWith("parse", HtmlResponse(CPage2, <<>>, ti, b))
    \/ InitOneWith("parse", ImageResponse(CPage2))
    \/ \E r \in PdfInputs \cup {TxtResponse(DownloadTxt, TxtValid)} :
           InitOneWith("parse_pdf", r)
    \/ \E r \in DocxInputs \cup {ImageResponse(CGetDocx)} :
           InitOneWith("parse_docx", r)
    \/ \E r \in TxtInputs : InitOneWith("parse_txt", r)

FirstCycle == last.callback = "none"

NextOne ==
    \/ FirstCycle /\ \E t \in BagToSet(frontier) : FetchFail(t)
    \/ FirstCycle /\ \E t \in BagToSet(frontier) : RunParse(t)
    \/ FirstCycle /\ \E t \in BagToSet(frontier) : RunParsePdf(t)
    \/ FirstCycle /\ \E t \in BagToSet(frontier) : RunParseDocx(t)
    \/ FirstCycle /\ \E t \in BagToSet(frontier) : RunParseTxt(t)

SpecOne == InitOne /\ [][NextOne]_vars

(***************************************************************************)
(* Properties.  The latest cycle is described by `last`; the response its  *)
(* callback got is site[last.url].                                         *)
(***************************************************************************)
LastResponse == site[last.url]
CallbackRan(callback) == last.callback = callback /\ ~last.fetchFailed
ParseReturned == CallbackRan("parse") /\ ~last.raised

IsRequest(o) == o.kind = "Request"
RequestsFor(u) == {i \in DOMAIN last.out : IsRequest(last.out[i]) /\ last.out[i].url = u}
CallbacksFor(u) == {last.out[i].callback : i \in RequestsFor(u)}
DocCallbacks == {"parse_pdf", "parse_docx", "parse_txt"}

HasControlChar(text) == \E i \in DOMAIN text : text[i] \in {NL, CR, TAB}

\* C1 as stated: in every reachable state, the content of every record in the
\* sink, WebSite or Document, holds no newline, carriage return or tab.
C1_AllContentClean ==
    \A rec \in BagToSet(sink) : ~HasControlChar(rec.content)

\* C1 as amended: in every reachable state, the content of every WebSite
\* record in the sink holds no newline, carriage return or tab, whatever the
\* text nodes of the page were.
C1_WebSiteContentClean ==
    \A rec \in BagToSet(sink) : rec.kind = "WebSite" => ~HasControlChar(rec.content)

C1_Witness ==
    /\ ParseReturned
    /\ \E i \in DOMAIN LastResponse.bodyTexts : HasControlChar(LastResponse.bodyTexts[i])
    /\ \E rec \in BagToSet(sink) : rec.kind = "WebSite" /\ rec.content # <<>>

\* the path of u ends in "." followed by one of the words of line 111, in any case
DenyWords ==
    {<<"r", "a", "r">>, <<"j", "p", "g">>, <<"j", "p", "e", "g">>, <<"g", "i", "f">>,
     <<"p", "n", "g">>, <<"p", "p", "t">>, <<"p", "p", "t", "x">>, <<"p", "d", "f">>,
     <<"d", "o", "c">>, <<"d", "o", "c", "x">>, <<"t", "x", "t">>, <<"x", "l", "s">>,
     <<"d", "b">>, <<"z", "i", "p">>, <<"d", "p", "t">>, <<"e", "x", "e">>,
     <<"m", "s", "o">>, <<"w", "m", "z">>, <<"s", "a", "v">>, <<"t", "m", "p">>}

PathEndsWith(u, word) ==
    LET f == [i \in DOMAIN u.file |-> Lower(u.file[i])]
        w == <<".">> \o word
    IN  Len(f) >= Len(w) /\ SubSeq(f, Len(f) - Len(w) + 1, Len(f)) = w

HasDeniedExtension(u) == \E w \in DenyWords : PathEndsWith(u, w)

\* C2 as stated: parse gives every link of the page exactly one follow-up task.
C2_ExactlyOneKind ==
    ParseReturned =>
        \A u \in Range(LastResponse.links) : Cardinality(RequestsFor(u)) = 1

\* C2 as amended: the four link passes of parse are independent, so a link
\* gets between zero and three tasks, never two with the same callback and
\* never both parse_docx and parse_txt; two document callbacks only for a
\* URL containing article/download/; no task at all only for a link whose
\* extension is on the deny-list; and every task is for a link of the page.
C2_KindsPerLink ==
    ParseReturned =>
        /\ \A u \in Range(LastResponse.links) :
              /\ Cardinality(RequestsFor(u)) = Cardinality(CallbacksFor(u))
              /\ Cardinality(RequestsFor(u)) <= 3
              /\ ~({"parse_docx", "parse_txt"} \subseteq CallbacksFor(u))
              /\ Cardinality(CallbacksFor(u) \cap DocCallbacks) > 1
                    => MatchesArticleDownload(u)
              /\ RequestsFor(u) = {} => HasDeniedExtension(u)
        /\ \A i \in DOMAIN last.out :
              IsRequest(last.out[i]) => last.out[i].url \in Range(LastResponse.links)

C2_Witness ==
    /\ ParseReturned
    /\ \E u, v, w \in Range(LastResponse.links) :
          /\ RequestsFor(u) = {}
          /\ Cardinality(RequestsFor(v)) = 1
          /\ Cardinality(RequestsFor(w)) = 3

\* C3: after parse, no URL has tasks with two different callbacks among
\* parse_pdf, parse_docx and parse_txt.
C3_DocBucketsDisjoint ==
    ParseReturned =>
        \A u \in Range(LastResponse.links) :
            Cardinality(CallbacksFor(u) \cap DocCallbacks) <= 1

\* C4: parse yields no Request with callback parse for a URL whose extension
\* is on the deny-list, and no Request at all for https://x/img.jpg.
C4_NoPageTaskForDeniedExtension ==
    ParseReturned =>
        /\ \A i \in DOMAIN last.out :
              IsRequest(last.out[i]) /\ last.out[i].callback = "parse"
                  => ~HasDeniedExtension(last.out[i].url)
        /\ RequestsFor(XImgJpg) = {}

C4_Witness ==
    /\ ParseReturned
    /\ XImgJpg \in Range(LastResponse.links)
    /\ CImgPng \in Range(LastResponse.links)
    /\ "parse" \in CallbacksFor(XPage2)

\* C5: on a page whose links are doc.pdf, f.docx, n.txt and page2, parse
\* yields exactly four requests: doc.pdf with parse_pdf, f.docx with
\* parse_docx, n.txt with parse_txt and page2 with parse.
C5_ScenarioOneTaskPerKind ==
    ParseReturned /\ LastResponse.links = <<XDocPdf, XFDocx, XNTxt, XPage2>> =>
        /\ CallbacksFor(XDocPdf) = {"parse_pdf"}
        /\ CallbacksFor(XFDocx) = {"parse_docx"}
        /\ CallbacksFor(XNTxt) = {"parse_txt"}
        /\ CallbacksFor(XPage2) = {"parse"}
        /\ Cardinality({i \in DOMAIN last.out : IsRequest(last.out[i])}) = 4

\* C6: parse_pdf and parse_docx never raise; they return exactly one
\* Document whose url is the response URL and whose content is the
\* concatenation, in order, of the parts read before the failure point (all
\* parts when nothing fails, none when the payload cannot be opened).
C6_DocCallbacksReturnPartialContent ==
    CallbackRan("parse_pdf") \/ CallbackRan("parse_docx") =>
        LET r == LastResponse
            format == IF last.callback = "parse_pdf" THEN "pdf" ELSE "docx"
            expected ==
                IF r.ctype # format THEN <<>>
                ELSE Flatten(SubSeq(r.parts, 1, IF r.fails THEN r.at ELSE Len(r.parts)))
        IN  /\ ~last.raised
            /\ last.out = <<Document(r.url, expected)>>
            /\ sink = SetToBag({Document(r.url, expected)})

C6_Witness ==
    /\ CallbackRan("parse_pdf")
    /\ LastResponse.ctype = "pdf"
    /\ LastResponse.fails /\ LastResponse.at = 1 /\ Len(LastResponse.parts) = 2
    /\ LastResponse.parts[2] # <<>>
    /\ last.out[1].content # <<>>

\* UTF-8 encoding of a text, to say which bodies are valid UTF-8
Utf8EncodePoint(cp) ==
    IF cp < 128 THEN <<cp>>
    ELSE IF cp < 2048 THEN <<192 + (cp \div 64), 128 + (cp % 64)>>
    ELSE IF cp < 65536
    THEN <<224 + (cp \div 4096), 128 + ((cp \div 64) % 64), 128 + (cp % 64)>>
    ELSE <<240 + (cp \div 262144), 128 + ((cp \div 4096) % 64),
           128 + ((cp \div 64) % 64), 128 + (cp % 64)>>

Utf8Encode(text) == Flatten([i \in DOMAIN text |-> Utf8EncodePoint(text[i])])

\* the code points whose encoding is made of the byte values of the inputs
\* (none of which starts a three- or four-byte sequence)
EncodablePoints == {cp \in 0..2047 : Range(Utf8EncodePoint(cp)) \subseteq ByteValues}

\* C7: when the body is not valid UTF-8, parse_txt raises and no Document
\* reaches the sink; when it is, parse_txt returns exactly one Document whose
\* content is the text the body encodes.
C7_TxtDecodeErrorPropagates ==
    CallbackRan("parse_txt") =>
        LET texts == {t \in SeqsUpTo(EncodablePoints, MaxBytes) :
                         Utf8Encode(t) = LastResponse.body}
        IN  IF texts = {}
            THEN last.raised /\ last.out = <<>> /\ sink = EmptyBag
            ELSE /\ ~last.raised
                 /\ \E t \in texts :
                       /\ last.out = <<Document(last.url, t)>>
                       /\ sink = SetToBag({Document(last.url, t)})

C7_Witness ==
    /\ CallbackRan("parse_txt")
    /\ last.raised
    /\ LastResponse.body # <<>>
    /\ sink = EmptyBag
    /\ [url |-> last.url, callback |-> "parse_txt", outcome |-> "raised"] \in log

(***************************************************************************)
(* Properties of the crawl.                                                *)
(***************************************************************************)
LastTask == [url |-> last.url, callback |-> last.callback]

\* when nothing is pending, every request the scheduler accepted has been taken
AllAcceptedTaken ==
    frontier = EmptyBag =>
        \A u \in seen \cup {t.url : t \in StartTasks} : \E e \in log : e.url = u

\* C8: a step in which a document callback raises removes that task from the
\* frontier and changes nothing else: the other pending tasks stay pending,
\* the sink keeps its records; and when the frontier is exhausted every
\* accepted request has been taken.
C8_DocFailureIsolated ==
    /\ [][last'.raised /\ last'.callback \in DocCallbacks =>
             /\ BagIn(LastTask', frontier)
             /\ frontier' = frontier (-) SetToBag({LastTask'})
             /\ sink' = sink
             /\ seen' = seen]_vars
    /\ []AllAcceptedTaken

C8_Witness ==
    /\ [url |-> CNTxt, callback |-> "parse_txt", outcome |-> "raised"] \in log
    /\ ParseReturned /\ last.url = CPage2
    /\ \E rec \in BagToSet(sink) : rec.kind = "WebSite" /\ rec.url = CPage2
    /\ \E rec \in BagToSet(sink) : rec.kind = "Document" /\ rec.url = Download5
    /\ frontier = EmptyBag

\* C9: a step in which the fetch fails runs no callback: it yields nothing,
\* adds no record and no task, and removes only the failed task from the
\* frontier, so every other pending task stays pending.
C9_FetchFailureAbandonsOnlyItsBranch ==
    [][last'.fetchFailed =>
          /\ BagIn(LastTask', frontier)
          /\ frontier' = frontier (-) SetToBag({LastTask'})
          /\ last'.out = <<>>
          /\ sink' = sink
          /\ seen' = seen]_vars

C9_Witness ==
    /\ [url |-> Download5, callback |-> "parse_pdf", outcome |-> "fetch_failed"] \in log
    /\ ParseReturned /\ last.url = CPage2
    /\ \A rec \in BagToSet(sink) : rec.url # Download5
    /\ \E rec \in BagToSet(sink) : rec.kind = "Document" /\ rec.url = CGetDocx

\* the host is upr.edu.cu or a subdomain of it
HostAllowed(u) ==
    LET h == u.host
        n == Len(u.host)
    IN  n >= 3 /\ h[n - 2] = "upr" /\ h[n - 1] = "edu" /\ h[n] = "cu"

\* C10: no URL outside the allowed domains is ever pending, fetched or the
\* url of a record.
C10_NoOffsiteFetch ==
    /\ \A t \in BagToSet(frontier) : HostAllowed(t.url)
    /\ \A e \in log : HostAllowed(e.url)
    /\ \A rec \in BagToSet(sink) : HostAllowed(rec.url)

C10_Witness ==
    /\ ParseReturned
    /\ \E i, j \in DOMAIN last.out :
          /\ IsRequest(last.out[i]) /\ ~HostAllowed(last.out[i].url)
          /\ last.out[i].url \notin seen
          /\ IsRequest(last.out[j]) /\ HostAllowed(last.out[j].url)
          /\ BagIn(Task(last.out[j].url, last.out[j].callback), frontier)

\* the positions of the WebSite items among the outputs of the latest cycle
WebSiteItems == {i \in DOMAIN last.out : last.out[i].kind = "WebSite"}

\* C11: parse, called on an HTML page, does not raise and yields exactly one
\* WebSite item, whose url is the URL of the response, whatever the links of
\* the page are; that one record, and no other, reaches the sink.
C11_ExactlyOneWebSite ==
    CallbackRan("parse") /\ LastResponse.ctype = "html" =>
        /\ ~last.raised
        /\ Cardinality(WebSiteItems) = 1
        /\ \A i \in WebSiteItems : last.out[i].url = LastResponse.url
        /\ BagCardinality(sink) = 1
        /\ \A rec \in BagToSet(sink) : rec.kind = "WebSite" /\ rec.url = LastResponse.url

C11_Witness ==
    /\ ParseReturned
    /\ Len(LastResponse.links) >= 3
    /\ \E i, j, k \in DOMAIN last.out :
          /\ IsRequest(last.out[i]) /\ last.out[i].callback \in DocCallbacks
          /\ IsRequest(last.out[j]) /\ last.out[j].callback = "parse"
          /\ IsRequest(last.out[k]) /\ last.out[k].callback = "parse" /\ k # j
    /\ Cardinality(WebSiteItems) = 1

(***************************************************************************)
(* clean_text as parse applies it: the pairs (text node, cleaned value) of *)
(* the latest parse, over the title and the body text nodes.               *)
(***************************************************************************)
TheWebSite == last.out[CHOOSE i \in WebSiteItems : TRUE]

CleanedPairs ==
    IF ParseReturned /\ WebSiteItems # {}
          /\ Len(TheWebSite.title) = Len(LastResponse.titleTexts)
          /\ Len(TheWebSite.content) = Len(LastResponse.bodyTexts)
    THEN {<<LastResponse.titleTexts[k], TheWebSite.title[k]>> :
              k \in DOMAIN LastResponse.titleTexts}
         \cup {<<LastResponse.bodyTexts[k], TheWebSite.content[k]>> :
                  k \in DOMAIN LastResponse.bodyTexts}
    ELSE {}

\* every text node of the page has its cleaned value in the item, in order
EveryNodeCleaned ==
    ParseReturned =>
        /\ Len(TheWebSite.title) = Len(LastResponse.titleTexts)
        /\ Len(TheWebSite.content) = Len(LastResponse.bodyTexts)

\* C12: for every input text, the output of clean_text holds no newline,
\* carriage return or tab, and neither starts nor ends with whitespace.
C12_CleanTextOutputClean ==
    /\ EveryNodeCleaned
    /\ \A p \in CleanedPairs :
          LET o == p[2]
          IN  /\ ~HasControlChar(o)
              /\ o # <<>> => ~IsSpace(o[1]) /\ ~IsSpace(o[Len(o)])

C12_Witness ==
    \E p \in CleanedPairs :
        /\ Len(p[1]) >= 2 /\ p[1][1] = SPACE /\ p[1][Len(p[1])] = TAB
        /\ p[2] = <<>>

\* the text without the characters of `removed`, then without the whitespace
\* before its first and after its last non-whitespace character
Without(text, removed) == SelectSeq(text, LAMBDA x : x \notin removed)

Trimmed(text) ==
    LET inner == {i \in DOMAIN text : ~IsSpace(text[i])}
    IN  IF inner = {} THEN <<>>
        ELSE SubSeq(text,
                    CHOOSE i \in inner : \A j \in inner : i <= j,
                    CHOOSE i \in inner : \A j \in inner : j <= i)

\* C13 as stated: clean_text returns the input without its newlines, carriage
\* returns and tabs, trimmed; every other character is kept, in order.
C13_RemovesOnlyControlChars ==
    /\ EveryNodeCleaned
    /\ \A p \in CleanedPairs : p[2] = Trimmed(Without(p[1], {NL, CR, TAB}))

\* C13 as amended: clean_text returns the input without its newlines,
\* carriage returns, tabs and slashes ("/"), trimmed; every other character is
\* kept, in order.
C13_RemovesControlCharsAndSlash ==
    /\ EveryNodeCleaned
    /\ \A p \in CleanedPairs : p[2] = Trimmed(Without(p[1], {NL, CR, TAB, SLASH}))

C13_Witness ==
    \E p \in CleanedPairs :
        /\ p[1] = <<97, SLASH, 98, CR>>
        /\ p[2] = <<97, 98>>

\* "Test", "Hello World" and "HelloWorld"
TextTest        == <<84, 101, 115, 116>>
HelloSpaceWorld == <<72, 101, 108, 108, 111, SPACE, 87, 111, 114, 108, 100>>
HelloWorld      == <<72, 101, 108, 108, 111, 87, 111, 114, 108, 100>>

ScenarioPage ==
    /\ ParseReturned
    /\ LastResponse.titleTexts = <<TestCR>>
    /\ LastResponse.bodyTexts = <<HelloTabWorldNL>>

\* C14 as stated: the page with title "Test\r" and the single body text
\* "Hello\tWorld\n" gives a record with title "Test" (as a string, or as the
\* list of its one fragment) and content "Hello World".
C14_ScenarioHelloSpaceWorld ==
    ScenarioPage =>
        \E rec \in BagToSet(sink) :
            /\ rec.kind = "WebSite"
            /\ rec.title \in {TextTest, <<TextTest>>}
            /\ rec.content = HelloSpaceWorld

\* C14 as amended: that page gives exactly one record, a WebSite with the
\* URL of the page, whose title is the list of the one cleaned title fragment
\* "Test" and whose exported content is "HelloWorld": clean_text removes the
\* tab, it puts no space in its place.
C14_ScenarioHelloWorld ==
    ScenarioPage =>
        sink = SetToBag({[kind |-> "WebSite", url |-> LastResponse.url,
                          title |-> <<TextTest>>, content |-> HelloWorld]})

C14_Witness ==
    /\ ScenarioPage
    /\ \E rec \in BagToSet(sink) : rec.content = HelloWorld

\* the place of an output in the order the claim gives
EmissionRank(o) ==
    IF o.kind = "WebSite" THEN 4
    ELSE CASE o.callback = "parse_pdf" -> 1
           [] o.callback = "parse_docx" -> 2
           [] o.callback = "parse_txt" -> 3
           [] o.callback = "parse" -> 5

\* C15: the outputs of one parse call come in the order PDF tasks, DOC
\* tasks, TXT tasks, the WebSite item, page tasks: no output is followed by
\* one of an earlier group, so the item comes after every document task and
\* before every page task of the same page.
C15_EmissionOrder ==
    ParseReturned =>
        /\ \A i, j \in DOMAIN last.out :
              i < j => EmissionRank(last.out[i]) <= EmissionRank(last.out[j])
        /\ \A i \in WebSiteItems, j \in DOMAIN last.out :
              IsRequest(last.out[j]) =>
                  IF last.out[j].callback \in DocCallbacks THEN j < i ELSE i < j

C15_Witness ==
    /\ ParseReturned
    /\ {EmissionRank(last.out[i]) : i \in DOMAIN last.out} = 1..5
    /\ Len(last.out) >= 7

(***************************************************************************)
(* The link graph of the web served: the in-domain PAGE links of the HTML  *)
(* pages, and what is reachable through them from the start URLs.          *)
(***************************************************************************)
SeedUrls == {start_urls[i] : i \in DOMAIN start_urls}

LinksIn(s, u) == IF s[u].ctype = "html" THEN Range(s[u].links) ELSE {}

PageLinksIn(s, u) == {v \in LinksIn(s, u) : HostAllowed(v) /\ ~HasDeniedExtension(v)}

RECURSIVE ReachIn(_, _)
ReachIn(s, S) ==
    LET more == S \cup UNION {PageLinksIn(s, u) : u \in S}
    IN  IF more = S THEN S ELSE ReachIn(s, more)

\* some URL reachable from the start URLs lies on a cycle of PAGE links
PageCycleIn(s) == \E u \in ReachIn(s, SeedUrls) : u \in ReachIn(s, PageLinksIn(s, u))

AcyclicSites == {s \in Sites : ~PageCycleIn(s)}

LinksOn(u) == LinksIn(site, u)
PageLinksOn(u) == PageLinksIn(site, u)
ReachableUrls == ReachIn(site, SeedUrls)
PageCycle == site \notin AcyclicSites

Pending(u, fr) == {t \in BagToSet(fr) : t.url = u}
PendingCount(u, fr) ==
    CopiesIn(Task(u, "parse"), fr) + CopiesIn(Task(u, "parse_pdf"), fr)
        + CopiesIn(Task(u, "parse_docx"), fr) + CopiesIn(Task(u, "parse_txt"), fr)

RecordCount(u) ==
    LET recs == {rec \in BagToSet(sink) : rec.url = u}
    IN  IF recs = {} THEN 0
        ELSE IF Cardinality(recs) = 1 THEN CopiesIn(CHOOSE rec \in recs : TRUE, sink)
        ELSE 3

NoFetchFailed == \A e \in log : e.outcome # "fetch_failed"

\* C16 as stated: there is no visited-set, so after a parse call every
\* in-domain URL it yielded a request for has a pending task, already fetched
\* or not; and on a cyclic link graph the frontier is never exhausted.
C16_NoVisitedSet ==
    /\ ParseReturned =>
           \A i \in DOMAIN last.out :
               IsRequest(last.out[i]) /\ HostAllowed(last.out[i].url)
                   => Pending(last.out[i].url, frontier) # {}
    /\ PageCycle /\ NoFetchFailed => frontier # EmptyBag

\* C16 as amended: the scheduler filters duplicate requests.  A step adds a
\* task for a URL only when the filter has not accepted that URL before, and
\* then adds one task and records the URL for good; so a URL is enqueued
\* through links at most once, a start URL has at most two tasks and two
\* records (its start request bypasses the filter), any other URL at most
\* one, and the frontier is eventually exhausted for good, on cyclic link
\* graphs too.
C16_DuplicateFilter ==
    /\ [][/\ seen \subseteq seen'
          /\ \A u \in Urls :
                PendingCount(u, frontier') > PendingCount(u, frontier) =>
                    /\ u \notin seen /\ u \in seen'
                    /\ PendingCount(u, frontier') = PendingCount(u, frontier) + 1]_vars
    /\ [](\A u \in Urls :
             /\ PendingCount(u, frontier) <= IF u \in SeedUrls THEN 2 ELSE 1
             /\ RecordCount(u) <= IF u \in SeedUrls THEN 2 ELSE 1)
    /\ <>[](frontier = EmptyBag)

C16_Witness ==
    /\ PageCycle /\ NoFetchFailed
    /\ frontier = EmptyBag
    /\ RecordCount(Seed3) = 2
    /\ RecordCount(CPage2) = 1
    /\ Cardinality({v \in ReachableUrls : CPage2 \in PageLinksOn(v)}) >= 1
    /\ Seed3 \in PageLinksOn(CPage2) /\ Seed3 \in PageLinksOn(Seed1)

\* C17: when no reachable URL lies on a cycle of PAGE links, the crawl
\* eventually reaches, and stays in, the state with nothing pending; and a
\* cycle that runs a document callback adds no task to the frontier: it only
\* removes its own.
C17_AcyclicCrawlTerminates ==
    /\ <>[](~PageCycle => frontier = EmptyBag)
    /\ [][last'.callback \in DocCallbacks =>
             \A t \in BagToSet(frontier') : CopiesIn(t, frontier') <= CopiesIn(t, frontier)]_vars

C17_Witness ==
    /\ ~PageCycle /\ NoFetchFailed
    /\ frontier = EmptyBag
    /\ CPage2 \in ReachableUrls
    /\ RecordCount(CPage2) = 1 /\ RecordCount(Download5) = 1
    /\ [url |-> CNTxt, callback |-> "parse_txt", outcome |-> "ok"] \in log

Processed(u, callback) == \E e \in log : e.url = u /\ e.callback = callback

Recorded(u) == \E rec \in BagToSet(sink) : rec.kind = "WebSite" /\ rec.url = u

\* C18: once nothing is pending in a crawl without a failed fetch, every
\* in-domain HTML page reachable from a start URL through PAGE links has been
\* fetched by parse and has a WebSite record, and every in-domain link of such
\* a page that parse puts in its PDF, DOC or TXT bucket has had the task of
\* that bucket processed.
C18_AllReachableProcessed ==
    frontier = EmptyBag /\ NoFetchFailed =>
        \A u \in ReachableUrls :
            site[u].ctype = "html" =>
                /\ Processed(u, "parse") /\ Recorded(u)
                /\ \A v \in LinksOn(u) :
                      HostAllowed(v) =>
                          /\ InPdf(v) => Processed(v, "parse_pdf")
                          /\ InDoc(v) => Processed(v, "parse_docx")
                          /\ InTxt(v) => Processed(v, "parse_txt")

(***************************************************************************)
(* The records of a crawl of web s in which every fetch succeeds and the   *)
(* pending tasks are taken one at a time in one fixed order.               *)
(***************************************************************************)
RunCallback(t, response) ==
    CASE t.callback = "parse" -> parse(response)
      [] t.callback = "parse_pdf" -> parse_pdf(response)
      [] t.callback = "parse_docx" -> parse_docx(response)
      [] t.callback = "parse_txt" -> parse_txt(response)

RECURSIVE RunInOrder(_, _)
RunInOrder(s, st) ==
    IF st.frontier = EmptyBag THEN st
    ELSE LET t == CHOOSE x \in BagToSet(st.frontier) : TRUE
         IN  RunInOrder(s, Deliver(RunCallback(t, s[t.url]).out,
                                   [st EXCEPT !.frontier = @ (-) SetToBag({t})]))

SequentialSink ==
    [s \in Sites |->
        RunInOrder(s, [frontier |-> SetToBag(StartTasks), seen |-> {},
                       sink |-> EmptyBag]).sink]

\* C19: a step never removes or changes a record of the sink, it only adds
\* the items of its own callback; and whatever the order in which the
\* pending tasks were taken, a crawl without a failed fetch ends with the
\* same multiset of records, that of the crawl taking them one by one in a
\* fixed order.
C19_RecordsIndependentOfInterleaving ==
    /\ [][/\ sink \sqsubseteq sink'
          /\ \A rec \in BagToSet(sink') :
                CopiesIn(rec, sink') > CopiesIn(rec, sink) =>
                    \E i \in DOMAIN last'.out : Export(last'.out[i]) = rec]_vars
    /\ [](frontier = EmptyBag /\ NoFetchFailed => sink = SequentialSink[site])

C19_Witness ==
    /\ frontier = EmptyBag /\ NoFetchFailed
    /\ sink = SequentialSink[site]
    /\ BagCardinality(sink) >= 7
    /\ last.url = CNTxt /\ last.raised
    /\ RecordCount(Seed3) = 2

\* C20: whenever a callback is over no temporary file is held, whether the
\* extraction succeeded, failed part-way or could not open the payload;
\* parse_pdf and parse_docx create exactly one temporary file per call, so a
\* document task holds at most one, and parse and parse_txt create none.
C20_TempFileReleased ==
    /\ tempfiles = 0
    /\ CallbackRan("parse_pdf") \/ CallbackRan("parse_docx") => last.opened = 1
    /\ last.callback \notin {"parse_pdf", "parse_docx"} \/ last.fetchFailed
           => last.opened = 0

C20_Witness ==
    /\ CallbackRan("parse_docx")
    /\ LastResponse.ctype = "docx"
    /\ LastResponse.fails /\ LastResponse.at = 1 /\ Len(LastResponse.parts) = 2
    /\ last.opened = 1
    /\ tempfiles = 0

====
